---------------------------- MODULE Spec2Model ----------------------------
(***************************************************************************)
(* Model of the two icon generators of the Tracker repository:             *)
(*   Pipeline A  src/Resources/generate_icon.py  (patterns icon, 13 sizes) *)
(*   Pipeline B  src/generate_icon.py            (rainbow infinity icon)   *)
(*                                                                         *)
(* Python floats are IEEE-754 binary64.  Every float operation of the      *)
(* source is modelled on exact dyadic rationals  m * 2^e  and rounded to   *)
(* 53 significant bits, ties to even, exactly as the interpreter does.     *)
(* Significands do not fit TLC's 32-bit integers, so they are kept as      *)
(* little-endian sequences of 15-bit limbs.                                *)
(***************************************************************************)
EXTENDS Integers, Sequences, FiniteSets, TLC

(***************************************************************************)
(* Unbounded naturals: little-endian sequences of limbs in 0 .. 2^15 - 1,  *)
(* without leading (high) zero limbs; <<>> is zero.                        *)
(***************************************************************************)
RECURSIVE BNorm(_)
BNorm(s) ==
    IF s = <<>> THEN <<>>
    ELSE IF s[Len(s)] = 0 THEN BNorm(SubSeq(s, 1, Len(s) - 1))
    ELSE s

RECURSIVE BFromInt(_)
BFromInt(n) ==
    IF n = 0 THEN <<>> ELSE <<n % (2^15)>> \o BFromInt(n \div (2^15))

RECURSIVE BToInt(_)
BToInt(s) ==
    IF s = <<>> THEN 0 ELSE Head(s) + (2^15) * BToInt(Tail(s))

RECURSIVE BMulCarry(_, _, _)
BMulCarry(s, c, carry) ==
    IF s = <<>> THEN BFromInt(carry)
    ELSE LET t == Head(s) * c + carry
         IN  <<t % (2^15)>> \o BMulCarry(Tail(s), c, t \div (2^15))

\* s * c for a small factor 0 <= c <= 2^15
BMulSmall(s, c) == BNorm(BMulCarry(s, c, 0))

RECURSIVE BAddCarry(_, _, _)
BAddCarry(a, b, carry) ==
    IF a = <<>> /\ b = <<>> THEN BFromInt(carry)
    ELSE LET x == IF a = <<>> THEN 0 ELSE Head(a)
             y == IF b = <<>> THEN 0 ELSE Head(b)
             t == x + y + carry
         IN  <<t % (2^15)>>
               \o BAddCarry(IF a = <<>> THEN <<>> ELSE Tail(a),
                            IF b = <<>> THEN <<>> ELSE Tail(b),
                            t \div (2^15))

BAdd(a, b) == BNorm(BAddCarry(a, b, 0))

RECURSIVE BSubBorrow(_, _, _)
BSubBorrow(a, b, borrow) ==
    IF a = <<>> THEN <<>>
    ELSE LET y == IF b = <<>> THEN 0 ELSE Head(b)
             t == Head(a) - y - borrow
         IN  <<t % (2^15)>>
               \o BSubBorrow(Tail(a),
                             IF b = <<>> THEN <<>> ELSE Tail(b),
                             IF t < 0 THEN 1 ELSE 0)

\* a - b, for a >= b
BSub(a, b) == BNorm(BSubBorrow(a, b, 0))

RECURSIVE BCmpFrom(_, _, _)
BCmpFrom(a, b, i) ==
    IF i = 0 THEN 0
    ELSE IF a[i] > b[i] THEN 1
    ELSE IF a[i] < b[i] THEN -1
    ELSE BCmpFrom(a, b, i - 1)

\* -1, 0, 1 as a < b, a = b, a > b (both normalised)
BCmp(a, b) ==
    IF Len(a) > Len(b) THEN 1
    ELSE IF Len(a) < Len(b) THEN -1
    ELSE BCmpFrom(a, b, Len(a))

RECURSIVE BDivFrom(_, _, _, _)
BDivFrom(s, d, i, r) ==
    IF i = 0 THEN [q |-> <<>>, r |-> r]
    ELSE LET t    == r * (2^15) + s[i]
             rest == BDivFrom(s, d, i - 1, t % d)
         IN  [q |-> rest.q \o <<t \div d>>, r |-> rest.r]

\* quotient and remainder of s by a small divisor 0 < d <= 2^15
BDivSmall(s, d) ==
    LET qr == BDivFrom(s, d, Len(s), 0)
    IN  [q |-> BNorm(qr.q), r |-> qr.r]

RECURSIVE IntBitLen(_)
IntBitLen(n) == IF n = 0 THEN 0 ELSE 1 + IntBitLen(n \div 2)

BitLen(s) == IF s = <<>> THEN 0 ELSE 15 * (Len(s) - 1) + IntBitLen(s[Len(s)])

BShl(s, n) ==
    IF s = <<>> THEN <<>>
    ELSE [i \in 1 .. (n \div 15) |-> 0] \o BMulSmall(s, 2^(n % 15))

BShr(s, n) ==
    IF Len(s) <= n \div 15 THEN <<>>
    ELSE BDivSmall(SubSeq(s, (n \div 15) + 1, Len(s)), 2^(n % 15)).q

BOdd(s) == s # <<>> /\ s[1] % 2 = 1

(***************************************************************************)
(* binary64 values >= 0 as [m |-> significand, e |-> exponent], m * 2^e.   *)
(***************************************************************************)
Precision == 53

\* Round an exact dyadic to Precision significant bits, ties to even.
FRound(m, e) ==
    IF BitLen(m) <= Precision THEN [m |-> m, e |-> e]
    ELSE LET n    == BitLen(m) - Precision
             q    == BShr(m, n)
             rem  == BSub(m, BShl(q, n))
             half == BShl(<<1>>, n - 1)
             c    == BCmp(rem, half)
             up   == c > 0 \/ (c = 0 /\ BOdd(q))
         IN  [m |-> IF up THEN BAdd(q, <<1>>) ELSE q, e |-> e + n]

\* float(n) for an int 0 <= n < 2^31 (exact)
FFromInt(n) == [m |-> BFromInt(n), e |-> 0]

MinExp(x, y) == IF x.e < y.e THEN x.e ELSE y.e

\* x + y
FAdd(x, y) ==
    FRound(BAdd(BShl(x.m, x.e - MinExp(x, y)), BShl(y.m, y.e - MinExp(x, y))),
           MinExp(x, y))

\* x - y, for x >= y
FSub(x, y) ==
    FRound(BSub(BShl(x.m, x.e - MinExp(x, y)), BShl(y.m, y.e - MinExp(x, y))),
           MinExp(x, y))

\* x * c for an int 0 <= c <= 2^15 (the int is converted exactly)
FMulInt(x, c) == FRound(BMulSmall(x.m, c), x.e)

\* a / b for ints a >= 0, 0 < b <= 2^15: Python's true division, correctly
\* rounded.  The quotient is taken to 70 extra bits plus a sticky bit.
FDivInt(a, b) ==
    LET qr == BDivSmall(BShl(BFromInt(a), 70), b)
    IN  FRound(BAdd(BMulSmall(qr.q, 2), IF qr.r = 0 THEN <<>> ELSE <<1>>), -71)

\* int(x) for x >= 0: truncation toward zero
FInt(x) ==
    IF x.e >= 0 THEN BToInt(BShl(x.m, x.e)) ELSE BToInt(BShr(x.m, -x.e))

(***************************************************************************)
(* State.  The two scripts share nothing at run time; a specification      *)
(* below runs one of them (or one of their functions on its own) and       *)
(* leaves the variables of the others at their idle values.                *)
(***************************************************************************)
VARIABLES
    pc,        \* control position of the running script or function
    size,      \* the size argument of the icon under construction
    \* Pipeline A (src/Resources/generate_icon.py)
    strict,    \* the installed image library rejects a box with x1 < x0
    entry,     \* position of main's loop in the sizes table (1-based)
    calls,     \* number of create_icon calls made so far
    img,       \* create_icon's img: the canvas composited so far
    steps,     \* layer steps create_icon has performed in this call
    canvases,  \* every canvas create_icon has allocated in this call
    glow,      \* circles handed to glow_draw.ellipse in this call
    icon,      \* main's icon: the value create_icon returned
    files,     \* the output directory: file name -> image saved under it
    saves,     \* file names in the order icon.save was completed
    error,     \* the exception that ended the run, or "none"
    \* Pipeline B (src/generate_icon.py)
    points,    \* len(points): number of sampled curve points
    seg,       \* the stroke loop's i
    position,  \* <<i, n>>: the float i / n passed to get_rainbow_color
    color,     \* the colour get_rainbow_color returned
    offset,    \* the thickness loop's offset
    copies,    \* line copies drawn for the current segment
    segments,  \* segments coloured so far, in order
    \* create_gradient_background of Pipeline A on its own
    color1, color2,
    rows       \* colours of the scan lines drawn so far (row 0 first)

varsA == <<strict, entry, calls, img, steps, canvases, glow, icon, files, saves, error>>
varsB == <<points, seg, offset, copies, segments>>
varsR == <<position, color>>
varsG == <<color1, color2, rows>>
vars  == <<pc, size, varsA, varsB, varsR, varsG>>

NoImage == [width |-> 0, height |-> 0, mode |-> "none", layers |-> <<>>]

IdleA ==
    /\ strict = FALSE /\ entry = 0 /\ calls = 0 /\ img = NoImage
    /\ steps = <<>> /\ canvases = <<>> /\ glow = <<>> /\ icon = NoImage
    /\ files = <<>> /\ saves = <<>> /\ error = "none"
IdleB == points = 0 /\ seg = 0 /\ offset = 0 /\ copies = <<>> /\ segments = <<>>
IdleR == position = <<0, 1>> /\ color = <<>>
IdleG == color1 = <<>> /\ color2 = <<>> /\ rows = <<>>

(***************************************************************************)
(* Pipeline B: rainbow colour interpolation (src/generate_icon.py).        *)
(***************************************************************************)
\* The palette: Red, Orange, Yellow, Green, Blue, Indigo, Violet.
colors ==
    << <<255, 0, 0>>, <<255, 127, 0>>, <<255, 255, 0>>, <<0, 255, 0>>,
       <<0, 127, 255>>, <<75, 0, 130>>, <<148, 0, 211>> >>

\* scaled_pos = position * (len(colors) - 1)
scaled_pos(p) == FMulInt(p, Len(colors) - 1)

\* idx = int(scaled_pos)
PaletteIdx(p) == FInt(scaled_pos(p))

\* ratio = scaled_pos - idx
Ratio(p) == FSub(scaled_pos(p), FFromInt(PaletteIdx(p)))

\* int(c1 * (1 - ratio) + c2 * ratio) for one channel
Blend(c1, c2, ratio) ==
    FInt(FAdd(FMulInt(FSub(FFromInt(1), ratio), c1), FMulInt(ratio, c2)))

\* get_rainbow_color(position), for a float position p >= 0.  Python indexes the
\* palette from 0; the sequence colors is indexed from 1.
get_rainbow_color(p) ==
    IF PaletteIdx(p) >= Len(colors) - 1 THEN colors[Len(colors)]
    ELSE LET c1 == colors[PaletteIdx(p) + 1]
             c2 == colors[PaletteIdx(p) + 2]
         IN  [j \in 1 .. 3 |-> Blend(c1[j], c2[j], Ratio(p))]

\* The float a position <<k, n>> denotes: k / n, correctly rounded.
PositionFloat(p) == FDivInt(p[1], p[2])

(***************************************************************************)
(* get_rainbow_color on its own, over a grid of positions k / n.           *)
(***************************************************************************)
MaxDen == 16
MaxOver == 2

InitRainbow ==
    /\ pc = "call" /\ size = 0
    /\ position \in { <<k, n>> \in (0 .. MaxDen + MaxOver) \X (1 .. MaxDen) :
                         k <= n + MaxOver }
    /\ color = <<>>
    /\ IdleA /\ IdleB /\ IdleG

RainbowColor ==
    /\ pc = "call"
    /\ color' = get_rainbow_color(PositionFloat(position))
    /\ pc' = "returned"
    /\ UNCHANGED <<size, position, varsA, varsB, varsG>>

SpecRainbow == InitRainbow /\ [][RainbowColor]_vars

(***************************************************************************)
(* Pipeline B: create_app_icon's thick rainbow stroke.                     *)
(* The sampled points themselves (draw_infinity_symbol) are trigonometric  *)
(* floats; the stroke loop reads only their number and their indices, so   *)
(* a point is modelled by its index 0 .. len(points) - 1.                  *)
(***************************************************************************)
\* The literal 0.08 as a binary64: 5764607523034235 * 2^-56.
Float008 == [m |-> <<5243, 3932, 27525, 163>>, e |-> -56]

\* line_width = int(size * 0.08)
line_width(sz) == FInt(FMulInt(Float008, sz))

\* range(-line_width//2, line_width//2): first value and (exclusive) stop.
\* Python's unary minus binds tighter than //, and // floors.
OffsetStart(lw) == (-lw) \div 2
\* (Faulty variant: the stop value included.)
OffsetStopInclusive(lw) == lw \div 2 + 1
OffsetStop(lw) == lw \div 2

\* range(len(points) - 1): the number of segments the stroke loop visits
\* (Faulty variant: the curve closed by one more segment, back to points[0].)
StrokeRangeClosed(n) == n
StrokeRange(n) == n - 1

\* num_points passed by create_app_icon
NumPoints == 400
\* the size __main__ passes
AppIconSize == 1024

MaxBSize == 40
MaxPoints == 12

InitB ==
    /\ pc = "segment"
    /\ \E call \in {<<AppIconSize, NumPoints>>}
                        \cup ((1 .. MaxBSize) \X (2 .. MaxPoints)) :
          size = call[1] /\ points = call[2]
    /\ seg = 0 /\ offset = 0 /\ copies = <<>> /\ segments = <<>>
    /\ position = <<0, 1>> /\ color = <<>>
    /\ IdleA /\ IdleG

\* for i in range(len(points) - 1): position, color, the segment's end points
StrokeSegment ==
    /\ pc = "segment"
    /\ seg < StrokeRange(points)
    /\ position' = <<seg, points>>
    /\ color' = get_rainbow_color(PositionFloat(<<seg, points>>))
    /\ segments' = Append(segments,
                          [from |-> seg, to |-> (seg + 1) % points,
                           idx |-> PaletteIdx(PositionFloat(<<seg, points>>))])
    /\ offset' = OffsetStart(line_width(size))
    /\ copies' = <<>>
    /\ pc' = "offsets"
    /\ UNCHANGED <<size, points, seg, varsA, varsG>>

\* for offset in range(...): one copy shifted in y, one copy shifted in x
DrawOffset ==
    /\ pc = "offsets"
    /\ offset < OffsetStop(line_width(size))
    /\ copies' = copies \o << [axis |-> "y", offset |-> offset, fill |-> color],
                              [axis |-> "x", offset |-> offset, fill |-> color] >>
    /\ offset' = offset + 1
    /\ UNCHANGED <<pc, size, points, seg, segments, position, color, varsA, varsG>>

\* the offset range is exhausted: next i
NextSegment ==
    /\ pc = "offsets"
    /\ offset >= OffsetStop(line_width(size))
    /\ seg' = seg + 1
    /\ pc' = "segment"
    /\ UNCHANGED <<size, points, offset, copies, segments, position, color,
                   varsA, varsG>>

\* the stroke loop is over: rounded corners, flatten to RGB, save
FinishAppIcon ==
    /\ pc = "segment"
    /\ seg >= StrokeRange(points)
    /\ pc' = "saved"
    /\ UNCHANGED <<size, varsA, varsB, varsR, varsG>>

NextB == StrokeSegment \/ DrawOffset \/ NextSegment \/ FinishAppIcon

SpecB == InitB /\ [][NextB]_vars

(***************************************************************************)
(* Pipeline A: create_gradient_background (src/Resources/generate_icon.py) *)
(***************************************************************************)
\* int(c1 + (c2 - c1) * y / h) for one channel.  (c2 - c1) * y is an int, the
\* division is Python's true division, the sum a float sum, int() truncates.
\* For c2 < c1 the quotient is negative; rounding is symmetric in sign, so
\* the float sum c1 + (-q) is the float difference c1 - q.
\* (Faulty variant: the row index taken one too far.)
GradientChannelShifted(c1, c2, y, h) ==
    IF c2 >= c1 THEN FInt(FAdd(FFromInt(c1), FDivInt((c2 - c1) * (y + 1), h)))
    ELSE FInt(FSub(FFromInt(c1), FDivInt((c1 - c2) * (y + 1), h)))

GradientChannel(c1, c2, y, h) ==
    IF c2 >= c1 THEN FInt(FAdd(FFromInt(c1), FDivInt((c2 - c1) * y, h)))
    ELSE FInt(FSub(FFromInt(c1), FDivInt((c1 - c2) * y, h)))

\* the fill of scan line y
GradientRowColor(c1, c2, y, h) ==
    [j \in 1 .. 3 |-> GradientChannel(c1[j], c2[j], y, h)]

\* create_icon's colour scheme
gradient_start == <<58, 123, 213>>
gradient_end == <<88, 86, 214>>

(***************************************************************************)
(* Pipeline A: create_icon and main.                                       *)
(* An image is [width, height, mode, layers]: layers lists what has been   *)
(* drawn or composited into it, oldest first.                              *)
(***************************************************************************)
\* main's sizes table, in insertion (= iteration) order
\* (Faulty variant: patterns-87.png given the size 80.)
sizesTypo ==
    << [filename |-> "patterns-1024.png", size |-> 1024],
       [filename |-> "patterns-180.png", size |-> 180],
       [filename |-> "patterns-167.png", size |-> 167],
       [filename |-> "patterns-152.png", size |-> 152],
       [filename |-> "patterns-120.png", size |-> 120],
       [filename |-> "patterns-87.png", size |-> 80],
       [filename |-> "patterns-80.png", size |-> 80],
       [filename |-> "patterns-76.png", size |-> 76],
       [filename |-> "patterns-60.png", size |-> 60],
       [filename |-> "patterns-58.png", size |-> 58],
       [filename |-> "patterns-40.png", size |-> 40],
       [filename |-> "patterns-29.png", size |-> 29],
       [filename |-> "patterns-20.png", size |-> 20] >>

sizes ==
    << [filename |-> "patterns-1024.png", size |-> 1024],
       [filename |-> "patterns-180.png", size |-> 180],
       [filename |-> "patterns-167.png", size |-> 167],
       [filename |-> "patterns-152.png", size |-> 152],
       [filename |-> "patterns-120.png", size |-> 120],
       [filename |-> "patterns-87.png", size |-> 87],
       [filename |-> "patterns-80.png", size |-> 80],
       [filename |-> "patterns-76.png", size |-> 76],
       [filename |-> "patterns-60.png", size |-> 60],
       [filename |-> "patterns-58.png", size |-> 58],
       [filename |-> "patterns-40.png", size |-> 40],
       [filename |-> "patterns-29.png", size |-> 29],
       [filename |-> "patterns-20.png", size |-> 20] >>

(***************************************************************************)
(* create_gradient_background on its own.                                  *)
(***************************************************************************)
MaxGradSize == 10

\* Calls tried: every size up to MaxGradSize with every pair of these colours
\* (the icon's own, the extremes, mixed directions), and create_icon's own call
\* for every size of the table.
GradColors ==
    { gradient_start, gradient_end, <<0, 0, 0>>, <<255, 255, 255>>,
      <<255, 0, 128>>, <<1, 254, 127>>, <<128, 127, 255>> }

InitGradient ==
    /\ pc = "rows"
    /\ \E call \in ((1 .. MaxGradSize) \X GradColors \X GradColors)
                      \cup { <<sizes[e].size, gradient_start, gradient_end>> :
                                e \in 1 .. Len(sizes) } :
          size = call[1] /\ color1 = call[2] /\ color2 = call[3]
    /\ rows = <<>>
    /\ IdleA /\ IdleB /\ IdleR

\* for y in range(size[1]): draw.line(..., fill=(r, g, b))
GradientRow ==
    /\ pc = "rows"
    /\ Len(rows) < size
    /\ rows' = Append(rows, GradientRowColor(color1, color2, Len(rows), size))
    /\ UNCHANGED <<pc, size, color1, color2, varsA, varsB, varsR>>

\* return base
GradientReturn ==
    /\ pc = "rows"
    /\ Len(rows) >= size
    /\ pc' = "returned"
    /\ UNCHANGED <<size, varsA, varsB, varsR, varsG>>

NextGradient == GradientRow \/ GradientReturn

SpecGradient == InitGradient /\ [][NextGradient]_vars

(***************************************************************************)
(* create_icon's images and drawing calls.                                 *)
(***************************************************************************)
\* Image.new(mode, (w, h), ...) holding one drawn layer
NewImage(w, h, mode, layer) ==
    [width |-> w, height |-> h, mode |-> mode, layers |-> <<layer>>]

\* Image.alpha_composite(base, overlay): overlay over base, a new image
alpha_composite(base, overlay) ==
    [base EXCEPT !.layers = base.layers \o overlay.layers]

\* for i in range(20)
GlowSteps == 20

\* alpha = int(30 - i * 1.5); 1.5 is 3 * 2^-1
\* (Faulty variant: a step of 1 instead of 1.5.)
GlowAlphaUnit(i) == FInt(FSub(FFromInt(30), FMulInt([m |-> <<1>>, e |-> 0], i)))
GlowAlpha(i) == FInt(FSub(FFromInt(30), FMulInt([m |-> <<3>>, e |-> -1], i)))

\* radius = size // 2 - i * 5
GlowRadius(sz, i) == sz \div 2 - i * 5

\* the i-th circle handed to glow_draw.ellipse
GlowCircle(sz, i) ==
    [x0 |-> sz \div 2 - GlowRadius(sz, i), y0 |-> sz \div 2 - GlowRadius(sz, i),
     x1 |-> sz \div 2 + GlowRadius(sz, i), y1 |-> sz \div 2 + GlowRadius(sz, i),
     cx |-> sz \div 2, cy |-> sz \div 2,
     radius |-> GlowRadius(sz, i), alpha |-> GlowAlpha(i)]

\* The literal 0.2237 as a binary64: 251863809160695 * 2^-50.
Float02237 == [m |-> <<30199, 14784, 5190, 7>>, e |-> -50]

\* corner_radius = int(size * 0.2237)
\* (Faulty variant: no rounding of the corners.)
corner_radius_square(sz) == 0
corner_radius(sz) == FInt(FMulInt(Float02237, sz))

\* mask_draw.rounded_rectangle([(0, 0), (size, size)], radius, fill=255) on a
\* mask of zeros: the box, and the radius of its corner arcs
RoundedMask(sz) ==
    [x0 |-> 0, y0 |-> 0, x1 |-> sz, y1 |-> sz, radius |-> corner_radius(sz)]

\* Whether the filled rounded rectangle m covers pixel (x, y): inside the
\* box, and either between the corner squares on one axis or within the
\* corner arc's circle.
RoundedRectCovers(m, x, y) ==
    /\ m.x0 <= x /\ x <= m.x1 /\ m.y0 <= y /\ y <= m.y1
    /\ \/ m.x0 + m.radius <= x /\ x <= m.x1 - m.radius
       \/ m.y0 + m.radius <= y /\ y <= m.y1 - m.radius
       \/ LET ax == IF x < m.x0 + m.radius THEN m.x0 + m.radius ELSE m.x1 - m.radius
              ay == IF y < m.y0 + m.radius THEN m.y0 + m.radius ELSE m.y1 - m.radius
          IN  (x - ax) * (x - ax) + (y - ay) * (y - ay) <= m.radius * m.radius

\* The alpha of pixel (x, y) of an image after putalpha(mask)
AlphaAt(image, x, y) ==
    IF /\ 0 <= x /\ x < image.width /\ 0 <= y /\ y < image.height
       /\ RoundedRectCovers(image.mask, x, y)
    THEN 255 ELSE 0

InitA ==
    /\ pc = "loop" /\ size = 0
    /\ strict \in BOOLEAN
    /\ entry = 1 /\ calls = 0
    /\ img = NoImage /\ steps = <<>> /\ canvases = <<>> /\ glow = <<>>
    /\ icon = NoImage /\ files = <<>> /\ saves = <<>> /\ error = "none"
    /\ IdleB /\ IdleR /\ IdleG

\* for filename, size in sizes.items(): icon = create_icon(size) is entered
CallCreateIcon ==
    /\ pc = "loop"
    /\ entry <= Len(sizes)
    /\ size' = sizes[entry].size
    /\ calls' = calls + 1
    /\ img' = NoImage /\ steps' = <<>> /\ canvases' = <<>> /\ glow' = <<>>
    /\ pc' = "gradient"
    /\ UNCHANGED <<strict, entry, icon, files, saves, error, varsB, varsR, varsG>>

\* img = create_gradient_background((size, size), ...); img.convert('RGBA')
GradientBackground ==
    /\ pc = "gradient"
    /\ img' = NewImage(size, size, "RGBA", "gradient")
    /\ steps' = Append(steps, "gradient")
    /\ canvases' = Append(canvases, [name |-> "base", width |-> size, height |-> size])
    /\ pc' = "lines"
    /\ UNCHANGED <<size, strict, entry, calls, glow, icon, files, saves, error,
                   varsB, varsR, varsG>>

\* lines_overlay = draw_connecting_lines(...); img = alpha_composite(img, ...)
ConnectingLines ==
    /\ pc = "lines"
    /\ img' = alpha_composite(img, NewImage(size, size, "RGBA", "lines"))
    /\ steps' = Append(steps, "lines")
    /\ canvases' = Append(canvases,
                          [name |-> "lines_overlay", width |-> size, height |-> size])
    /\ pc' = "circles"
    /\ UNCHANGED <<size, strict, entry, calls, glow, icon, files, saves, error,
                   varsB, varsR, varsG>>

\* circles_overlay = draw_pattern_circles(...); img = alpha_composite(img, ...)
PatternCircles ==
    /\ pc = "circles"
    /\ img' = alpha_composite(img, NewImage(size, size, "RGBA", "circles"))
    /\ steps' = Append(steps, "circles")
    /\ canvases' = Append(canvases,
                          [name |-> "circles_overlay", width |-> size, height |-> size])
    /\ pc' = "glow"
    /\ UNCHANGED <<size, strict, entry, calls, glow, icon, files, saves, error,
                   varsB, varsR, varsG>>

\* one pass of "for i in range(20)": glow_draw.ellipse(box, fill).  A box with
\* x1 < x0 (a negative radius) is drawn as nothing by an image library that
\* tolerates it and raises ValueError in one that checks its coordinates.
GlowEllipse ==
    /\ pc = "glow"
    /\ Len(glow) < GlowSteps
    /\ glow' = Append(glow, GlowCircle(size, Len(glow)))
    /\ IF strict /\ GlowRadius(size, Len(glow)) < 0
       THEN pc' = "error" /\ error' = "ValueError"
       ELSE pc' = "glow" /\ error' = error
    /\ UNCHANGED <<size, strict, entry, calls, img, steps, canvases, icon, files,
                   saves, varsB, varsR, varsG>>

\* the loop is over: img = Image.alpha_composite(img, glow_overlay)
GlowComposite ==
    /\ pc = "glow"
    /\ Len(glow) >= GlowSteps
    /\ img' = alpha_composite(img, NewImage(size, size, "RGBA", "glow"))
    /\ steps' = Append(steps, "glow")
    /\ canvases' = Append(canvases,
                          [name |-> "glow_overlay", width |-> size, height |-> size])
    /\ pc' = "mask"
    /\ UNCHANGED <<size, strict, entry, calls, glow, icon, files, saves, error,
                   varsB, varsR, varsG>>

\* mask, rounded_rectangle, output.paste(img), output.putalpha(mask);
\* return output: main's icon
RoundCorners ==
    /\ pc = "mask"
    /\ icon' = [width |-> size, height |-> size, mode |-> "RGBA",
                layers |-> img.layers, mask |-> RoundedMask(size), call |-> calls]
    /\ steps' = Append(steps, "mask")
    /\ canvases' = canvases \o
                     << [name |-> "mask", width |-> size, height |-> size],
                        [name |-> "output", width |-> size, height |-> size] >>
    /\ pc' = "save"
    /\ UNCHANGED <<size, strict, entry, calls, img, glow, files, saves, error,
                   varsB, varsR, varsG>>

\* icon.save(os.path.join(output_dir, filename)) succeeds; next entry
SaveIcon ==
    /\ pc = "save"
    /\ files' = (sizes[entry].filename :> icon) @@ files
    /\ saves' = Append(saves, sizes[entry].filename)
    /\ entry' = entry + 1
    /\ pc' = "loop"
    /\ UNCHANGED <<size, strict, calls, img, steps, canvases, glow, icon, error,
                   varsB, varsR, varsG>>

\* (Faulty variant of SaveFails: the exception is caught and the entry skipped.)
SaveFailsSkipped ==
    /\ pc = "save"
    /\ error' = "OSError"
    /\ entry' = entry + 1
    /\ pc' = "loop"
    /\ UNCHANGED <<size, strict, calls, img, steps, canvases, glow, icon, files,
                   saves, varsB, varsR, varsG>>

\* icon.save raises (an unwritable path, a full disk): nothing catches it
SaveFails ==
    /\ pc = "save"
    /\ error' = "OSError"
    /\ pc' = "error"
    /\ UNCHANGED <<size, strict, entry, calls, img, steps, canvases, glow, icon,
                   files, saves, varsB, varsR, varsG>>

\* the loop is exhausted: main prints its summary and returns
Complete ==
    /\ pc = "loop"
    /\ entry > Len(sizes)
    /\ pc' = "done"
    /\ UNCHANGED <<size, varsA, varsB, varsR, varsG>>

Next ==
    \/ CallCreateIcon \/ GradientBackground \/ ConnectingLines \/ PatternCircles
    \/ GlowEllipse \/ GlowComposite \/ RoundCorners \/ SaveIcon \/ SaveFails
    \/ Complete

Init == InitA

Spec == Init /\ [][Next]_vars

(***************************************************************************)
(* Properties.                                                             *)
(***************************************************************************)
Between(v, a, b) == (a <= v /\ v <= b) \/ (b <= v /\ v <= a)

\* C1 (as claimed): get_rainbow_color returns (255,0,0) at position 0, the last
\* anchor (148,0,211) at every position >= 1, and at every position k/n in
\* [0, 1) a colour whose every channel lies between the channels of anchor
\* floor(6k/n) and of the next anchor, inclusive.
C1_RainbowConvex ==
    pc = "returned" =>
        LET k == position[1]
            n == position[2]
            idx == (6 * k) \div n
        IN  /\ k = 0 => color = <<255, 0, 0>>
            /\ k >= n => color = <<148, 0, 211>>
            /\ k < n => \A j \in 1 .. 3 :
                          Between(color[j], colors[idx + 1][j], colors[idx + 2][j])

\* The offsets of the copies drawn for the current segment along one axis
OffsetsDrawn(axis) ==
    { copies[c].offset : c \in { d \in 1 .. Len(copies) : copies[d].axis = axis } }

\* The thickness loop of the last coloured segment has run to its end.
OffsetLoopOver == pc \in {"segment", "saved"} /\ segments # <<>>

\* C7 (as claimed): the offsets used for a segment are closed under negation
\* (o is used iff -o is used), and every offset is used for one copy shifted in
\* y and one copy shifted in x.
C7_OffsetsSymmetric ==
    OffsetLoopOver =>
        /\ OffsetsDrawn("y") = OffsetsDrawn("x")
        /\ Len(copies) = 2 * Cardinality(OffsetsDrawn("y"))
        /\ \A o \in OffsetsDrawn("y") : -o \in OffsetsDrawn("y")

\* C7 (amended): with line_width = floor(0.08 * size), the offsets used for a
\* segment are the line_width consecutive integers from floor(-line_width / 2)
\* to floor(line_width / 2) - 1; an offset o among them has -o among them iff
\* |o| <= floor(line_width / 2) - 1, so the most negative offset (for an odd
\* line_width the two most negative) has no positive counterpart; each offset
\* is used, in increasing order, for exactly one copy shifted in y followed by
\* one copy shifted in x.
C7_OffsetRange ==
    OffsetLoopOver =>
        LET lw == (8 * size) \div 100
            lo == -((lw + 1) \div 2)
            hi == lw \div 2 - 1
        IN  /\ OffsetsDrawn("y") = lo .. hi
            /\ OffsetsDrawn("x") = lo .. hi
            /\ Len(copies) = 2 * lw
            /\ \A c \in 1 .. lw :
                  /\ copies[2 * c - 1].axis = "y" /\ copies[2 * c - 1].offset = lo + c - 1
                  /\ copies[2 * c].axis = "x" /\ copies[2 * c].offset = lo + c - 1
            /\ \A o \in lo .. hi : (-o \in OffsetsDrawn("y")) <=> (-hi <= o)
            /\ lw > 0 => lo \in OffsetsDrawn("y") /\ -lo \notin OffsetsDrawn("y")

\* C7 witness: the real icon (size 1024, line_width 81) after the thickness
\* loop of its first segment: 81 offsets -41 .. 39, two copies each.
C7_Witness ==
    /\ pc = "segment" /\ seg = 1 /\ size = 1024
    /\ Len(copies) = 162
    /\ copies[1].offset = -41 /\ copies[162].offset = 39

\* The s-th coloured segment is (points[s-1], points[s]), coloured from position
\* (s-1)/n, whose palette index is floor(6(s-1)/n) <= 5 (no clamp) and not
\* below the previous segment's.
SegmentOK(s) ==
    /\ segments[s].from = s - 1
    /\ segments[s].to = s
    /\ s <= points - 1
    /\ segments[s].idx = (6 * (s - 1)) \div points
    /\ segments[s].idx <= 5
    /\ s > 1 => segments[s - 1].idx <= segments[s].idx

\* C10: for a curve of n >= 2 points the stroke loop colours exactly the n-1
\* segments (points[i], points[i+1]), i = 0 .. n-2, in increasing i, never the
\* wrap-around segment; each position passed to get_rainbow_color is i/n with
\* 0 <= i/n < 1; the palette index floor(6i/n) is at most 5, the clamp branch is
\* never taken, and the index never decreases.
C10_StrokeSegments ==
    /\ segments # <<>> =>
          /\ SegmentOK(Len(segments))
          /\ position = <<Len(segments) - 1, points>>
          /\ 0 <= position[1] /\ position[1] < position[2]
          /\ PaletteIdx(PositionFloat(position)) < Len(colors) - 1
    /\ pc = "saved" =>
          /\ Len(segments) = points - 1
          /\ \A s \in 1 .. Len(segments) : SegmentOK(s)

\* C10 witness: a curve of 12 points fully stroked: 11 segments, the last one
\* (points[10], points[11]) in the palette's last interval.
C10_Witness ==
    /\ pc = "saved" /\ points = 12
    /\ Len(segments) = 11
    /\ segments[11].from = 10 /\ segments[11].to = 11 /\ segments[11].idx = 5

\* C6: every scan line's colour has each channel within [min, max] of the two
\* end colours' channels, row 0 is color1, and each channel is monotone in y
\* (non-decreasing if color2's channel >= color1's, else non-increasing).
C6_GradientMonotone ==
    \A y \in 1 .. Len(rows) : \A j \in 1 .. 3 :
        /\ Between(rows[y][j], color1[j], color2[j])
        /\ y = 1 => rows[y] = color1
        /\ y > 1 => IF color2[j] >= color1[j]
                    THEN rows[y - 1][j] <= rows[y][j]
                    ELSE rows[y - 1][j] >= rows[y][j]

\* C6 witness: the icon's own gradient, returned with all its rows drawn and
\* having moved away from color1.
C6_Witness ==
    /\ pc = "returned" /\ size >= 7 /\ Len(rows) = size
    /\ color1 = <<58, 123, 213>> /\ color2 = <<88, 86, 214>>
    /\ rows[size] # rows[1]

\* The export table as the interface documents it, in the order main visits it
ExportOrder ==
    << <<"patterns-1024.png", 1024>>, <<"patterns-180.png", 180>>,
       <<"patterns-167.png", 167>>, <<"patterns-152.png", 152>>,
       <<"patterns-120.png", 120>>, <<"patterns-87.png", 87>>,
       <<"patterns-80.png", 80>>, <<"patterns-76.png", 76>>,
       <<"patterns-60.png", 60>>, <<"patterns-58.png", 58>>,
       <<"patterns-40.png", 40>>, <<"patterns-29.png", 29>>,
       <<"patterns-20.png", 20>> >>

ExportNames == { ExportOrder[a][1] : a \in 1 .. Len(ExportOrder) }

ExportedSoFar ==
    /\ \A a, b \in 1 .. Len(saves) : a # b => saves[a] # saves[b]
    /\ DOMAIN files = { saves[a] : a \in 1 .. Len(saves) }
    /\ \A a \in 1 .. Len(saves) :
          /\ saves[a] = ExportOrder[a][1]
          /\ files[saves[a]].width = ExportOrder[a][2]
          /\ files[saves[a]].height = ExportOrder[a][2]
          /\ files[saves[a]].call = a
          /\ files[saves[a]].layers = <<"gradient", "lines", "circles", "glow">>

\* A bound on the steps main has left: the entries not yet saved weigh 40
\* each, the position inside the current entry counts down from 30.
StepsLeft ==
    IF pc \in {"done", "error"} THEN 0
    ELSE 40 * (14 - entry)
         + CASE pc = "loop" -> 30
             [] pc = "gradient" -> 29
             [] pc = "lines" -> 28
             [] pc = "circles" -> 27
             [] pc = "glow" -> 26 - Len(glow)
             [] pc = "mask" -> 5
             [] pc = "save" -> 4

\* C2: a run of main terminates (every step lowers the natural number
\* StepsLeft); one that ends without failure has visited every entry of the
\* 13-entry table exactly once: the files written are exactly
\* patterns-<size>.png for the 13 sizes, none written twice, each from the icon
\* of its own create_icon call, with width = height = its size.
C2_ExportAll ==
    /\ []ExportedSoFar
    /\ [](pc = "done" => /\ error = "none"
                         /\ Len(saves) = 13 /\ calls = 13
                         /\ DOMAIN files = ExportNames)
    /\ [](StepsLeft >= 0)
    /\ [][StepsLeft' < StepsLeft]_vars

\* C2 witness: a failure-free run has completed with 13 files written.
C2_Witness ==
    /\ pc = "done" /\ error = "none" /\ Len(saves) = 13
    /\ files["patterns-20.png"].width = 20

LayerOrder == <<"gradient", "lines", "circles", "glow", "mask">>

\* C3 (as claimed): every execution of create_icon performs the layer steps
\* gradient, lines, circles, glow, mask in that order, each exactly once, each
\* overlay composited onto the result of the step before it, the mask applied
\* after the three overlays; every canvas is size x size.
C3_LayerOrder ==
    /\ Len(steps) <= Len(LayerOrder)
    /\ steps = SubSeq(LayerOrder, 1, Len(steps))
    /\ img # NoImage => img.layers = SubSeq(LayerOrder, 1, Len(img.layers))
    /\ \A c \in 1 .. Len(canvases) :
          canvases[c].width = size /\ canvases[c].height = size
    /\ pc = "save" => icon.layers = SubSeq(LayerOrder, 1, 4)
    /\ (pc = "save" \/ error = "ValueError") => steps = LayerOrder

\* C4: a failure while generating or saving the k-th entry ends the run in an
\* error state from which no step is taken: the entry is not retried, no later
\* entry is generated or written, and the files written for the entries before
\* the k-th stay as they were.
C4_FailureTerminal ==
    /\ [](error # "none" =>
            /\ pc = "error"
            /\ calls = entry
            /\ Len(saves) = entry - 1
            /\ \A a \in 1 .. Len(saves) : saves[a] = ExportOrder[a][1]
            /\ DOMAIN files = { ExportOrder[a][1] : a \in 1 .. entry - 1 })
    /\ [][/\ error = "none"
          /\ \A f \in DOMAIN files : f \in DOMAIN files' /\ files'[f] = files[f]]_vars

\* C4 witness: saving the third entry failed after two files were written.
C4_Witness ==
    /\ pc = "error" /\ error = "OSError" /\ entry = 3
    /\ DOMAIN files = {"patterns-1024.png", "patterns-180.png"}

C8_FixedSteps ==
    /\ Len(glow) <= 20
    /\ pc \in {"mask", "save"} => Len(glow) = 20
    /\ \A a \in 1 .. Len(glow) :
          glow[a].cx = size \div 2 /\ glow[a].cy = size \div 2
    /\ \A a, b \in 1 .. Len(glow) - 1 :
          /\ glow[a].radius - glow[a + 1].radius = glow[b].radius - glow[b + 1].radius
          /\ glow[a].alpha - glow[a + 1].alpha = glow[b].alpha - glow[b + 1].alpha

\* C8 (amended): the glow loop requests circles i = 0, 1, ... in order, at most
\* 20, and all 20 before the glow is composited; circle i is centred at
\* (size//2, size//2) with radius size//2 - 5i and alpha floor(30 - 1.5i): the
\* radius decreases by exactly 5 per step, the alpha by 2 and 1 alternately
\* (2 after an even i, 1 after an odd i), that is by exactly 3 per two steps.
C8_GlowSteps ==
    /\ Len(glow) <= 20
    /\ pc \in {"mask", "save"} => Len(glow) = 20
    /\ \A a \in 1 .. Len(glow) :
          /\ glow[a].cx = size \div 2 /\ glow[a].cy = size \div 2
          /\ glow[a].radius = size \div 2 - 5 * (a - 1)
          /\ glow[a].x0 = glow[a].cx - glow[a].radius
          /\ glow[a].x1 = glow[a].cx + glow[a].radius
          /\ glow[a].y0 = glow[a].cy - glow[a].radius
          /\ glow[a].y1 = glow[a].cy + glow[a].radius
          /\ glow[a].alpha = (60 - 3 * (a - 1)) \div 2
    /\ \A a \in 1 .. Len(glow) - 1 :
          /\ glow[a].radius - glow[a + 1].radius = 5
          /\ glow[a].alpha - glow[a + 1].alpha = IF a % 2 = 1 THEN 2 ELSE 1
    /\ \A a \in 1 .. Len(glow) - 2 : glow[a].alpha - glow[a + 2].alpha = 3

\* C8 witness: all 20 circles of the 1024 icon requested, alpha 30 down to 1.
C8_Witness ==
    /\ size = 1024 /\ Len(glow) = 20 /\ pc = "mask"
    /\ glow[1].alpha = 30 /\ glow[20].alpha = 1 /\ glow[20].radius = 417

\* C9 (as claimed): for every exported size and every glow step the circle
\* handed to the drawing primitive is well-formed: radius >= 0, x0 <= x1,
\* y0 <= y1, alpha within 0 .. 255.
C9_GlowCirclesWellFormed ==
    \A a \in 1 .. Len(glow) :
        /\ glow[a].radius >= 0
        /\ glow[a].x0 <= glow[a].x1 /\ glow[a].y0 <= glow[a].y1
        /\ 0 <= glow[a].alpha /\ glow[a].alpha <= 255

=============================================================================
